---- MODULE Spec2Model ----
(***************************************************************************)
(* A model of mcc: the transcript parser and scanner (session.rs), the     *)
(* export codec (export.rs), the import codec (import.rs), the session     *)
(* selection of `mcc export` and the list of the terminal UI (main.rs).    *)
(*                                                                         *)
(* Strings are sequences of one-character strings, so that the directory   *)
(* name encoding (replace "/" by "-") and its decoding are computed.       *)
(* JSON values are tagged records; JSON text is a sequence of members, so  *)
(* that serialisation and parsing are computed, not assumed.               *)
(***************************************************************************)
EXTENDS Integers, Sequences, FiniteSets, TLC

VARIABLES
    root,       \* ~/.claude/projects: NoDir, or directory name -> (file stem -> file)
    registry,   \* ~/.claude.json: NoFile, or the text of the file
    exports,    \* container files: path -> bytes
    catalog,    \* the Vec<Session> of the last find_all_sessions: App.sessions
    selected,   \* App.selected: the index of the cursor, from 0
    app_message,  \* App.message
    ret,        \* what the last operation did and returned
    prev,       \* what the operation before it did and returned
    ops         \* operations run so far

vars == <<root, registry, exports, catalog, selected, app_message, ret, prev, ops>>

(***************************************************************************)
(* Bounds of the model.                                                    *)
(***************************************************************************)
MaxOps == 2
MaxKeys == 3
MaxSessions == 3
MaxMsgs == 2
MaxMtime == 2
MaxLines == 3
MaxWide == 1
MaxNarrow == 75

(***************************************************************************)
(* Strings.                                                                *)
(***************************************************************************)
Range(s) == {s[i] : i \in DOMAIN s}

\* str::replace(from, to) for one-character patterns
Replace(s, from, to) == [i \in 1..Len(s) |-> IF s[i] = from THEN to ELSE s[i]]

P_a == <<"/", "a">>
P_b == <<"/", "b">>
P_ab == <<"/", "a", "/", "b">>
P_a_b == <<"/", "a", "-", "b">>
P_other == <<"/", "o">>

Id1 == <<"s", "1">>
Id2 == <<"s", "2">>

User == <<"u">>
Assistant == <<"a">>

(***************************************************************************)
(* JSON values (serde_json::Value) and JSON text.                          *)
(***************************************************************************)
VStr(s) == [t |-> "str", s |-> s]
VNum(n) == [t |-> "num", n |-> n]
VNull == [t |-> "null"]
VObj(o) == [t |-> "obj", o |-> o]

IsStr(v) == v.t = "str"
IsObj(v) == v.t = "obj"

\* serde_json's Map is a BTreeMap: members are written in key order
KeyOrder == <<"cwd", "gitBranch", "message", "nested">>

\* the text of a JSON object: its members <<key, value>> in order
ObjText(members) == [json |-> "object", members |-> members]
Malformed == [json |-> "malformed"]
ScalarText == [json |-> "scalar"]

Ok(v) == [ok |-> TRUE, val |-> v]
Err(e) == [ok |-> FALSE, err |-> e]

\* the members of a map, in key order
MapMembers(m) ==
    LET keys == SelectSeq(KeyOrder, LAMBDA k : k \in DOMAIN m)
    IN [i \in 1..Len(keys) |-> <<keys[i], m[keys[i]]>>]

HasKey(members, k) == \E i \in DOMAIN members : members[i][1] = k

\* the value of key k in a member sequence; a repeated key keeps its last value
Field(members, k) ==
    LET last == CHOOSE i \in DOMAIN members :
                   /\ members[i][1] = k
                   /\ \A j \in DOMAIN members : members[j][1] = k => j <= i
    IN members[last][2]

\* the map of a member sequence, without the keys of skip
MembersMap(members, skip) ==
    [k \in {members[i][1] : i \in DOMAIN members} \ skip |-> Field(members, k)]

\* SerializeMessage without #[serde(flatten)]: the data under a key of its own
SerializeMessageNested(msg) ==
    ObjText(<<<<"type", VStr(msg.msg_type)>>, <<"data", VObj(msg.data)>>>>)

\* serde_json::to_string(&SessionMessage): "type", then the flattened data
SerializeMessage(msg) ==
    ObjText(<<<<"type", VStr(msg.msg_type)>>>> \o MapMembers(msg.data))

\* serde_json::from_str::<SessionMessage>: an object with a string "type";
\* every other member goes to data
ParseMessage(text) ==
    IF text.json # "object" THEN Err("not an object")
    ELSE IF ~HasKey(text.members, "type") THEN Err("missing field type")
    ELSE IF ~IsStr(Field(text.members, "type")) THEN Err("invalid type")
    ELSE Ok([msg_type |-> Field(text.members, "type").s,
             data |-> MembersMap(text.members, {"type"})])

(***************************************************************************)
(* The container: ExportedSession, its JSON text and its gzip bytes.       *)
(***************************************************************************)
None == [some |-> FALSE]
Some(v) == [some |-> TRUE, v |-> v]

FormatVersion == <<"1", ".", "0", ".", "0">>
OtherVersion == <<"2", ".", "0", ".", "0">>
Now == <<"n", "o", "w">>
UserAtHost == <<"u", "@", "h">>

VArr(items) == [t |-> "arr", items |-> items]
VObjText(members) == [t |-> "objtext", members |-> members]

\* Option<String> as JSON
OptionValue(o) == IF o.some THEN VStr(o.v) ELSE VNull

\* serde_json::to_string_pretty(&ExportedSession)
SerializeContainer(c) ==
    ObjText(<<
        <<"version", VStr(c.version)>>,
        <<"exported_at", VStr(c.exported_at)>>,
        <<"exported_by", VStr(c.exported_by)>>,
        <<"session", VObjText(<<
            <<"id", VStr(c.session.id)>>,
            <<"project_path", VStr(c.session.project_path)>>,
            <<"messages", VArr([i \in 1..Len(c.session.messages) |->
                                  SerializeMessage(c.session.messages[i])])>>,
            <<"summary", VStr(c.session.summary)>>,
            <<"git_branch", OptionValue(c.session.git_branch)>> >>)>> >>)

StrField(members, k) == HasKey(members, k) /\ IsStr(Field(members, k))

\* serde's derived Deserialize for SessionData: every field but the Option is
\* required; each element of messages must be a SessionMessage
SessionDataOk(members) ==
    /\ StrField(members, "id")
    /\ StrField(members, "project_path")
    /\ StrField(members, "summary")
    /\ HasKey(members, "messages")
    /\ Field(members, "messages").t = "arr"
    /\ \A i \in DOMAIN Field(members, "messages").items :
          ParseMessage(Field(members, "messages").items[i]).ok
    /\ HasKey(members, "git_branch") =>
          Field(members, "git_branch").t \in {"str", "null"}

ParseSessionData(members) ==
    LET items == Field(members, "messages").items
    IN [id |-> Field(members, "id").s,
        project_path |-> Field(members, "project_path").s,
        messages |-> [i \in 1..Len(items) |-> ParseMessage(items[i]).val],
        summary |-> Field(members, "summary").s,
        git_branch |-> IF HasKey(members, "git_branch")
                          /\ IsStr(Field(members, "git_branch"))
                       THEN Some(Field(members, "git_branch").s) ELSE None]

\* serde_json::from_str::<ExportedSession>: no field is compared with a
\* recognised value, version included
ParseContainer(text) ==
    IF text.json # "object" THEN Err("Failed to parse .mcc file")
    ELSE IF ~(/\ StrField(text.members, "version")
              /\ StrField(text.members, "exported_at")
              /\ StrField(text.members, "exported_by")
              /\ HasKey(text.members, "session")
              /\ Field(text.members, "session").t = "objtext"
              /\ SessionDataOk(Field(text.members, "session").members))
         THEN Err("Failed to parse .mcc file")
    ELSE Ok([version |-> Field(text.members, "version").s,
             exported_at |-> Field(text.members, "exported_at").s,
             exported_by |-> Field(text.members, "exported_by").s,
             session |-> ParseSessionData(Field(text.members, "session").members)])

\* GzEncoder: a header, the compressed text (one block per member of the
\* object; any other text in one block), a trailer
GzHeader == [gz |-> "header"]
GzTrailer == [gz |-> "trailer"]
GzEncode(text) ==
    <<GzHeader>>
    \o (IF text.json = "object"
        THEN [i \in 1..Len(text.members) |-> [gz |-> "member", m |-> text.members[i]]]
        ELSE <<[gz |-> "raw", text |-> text]>>)
    \o <<GzTrailer>>

\* GzDecode that takes what was read before the stream ended
GzDecodeLenient(bytes) ==
    IF Len(bytes) = 0 \/ bytes[1] # GzHeader THEN Err("Failed to decompress .mcc file")
    ELSE LET body == SelectSeq(bytes, LAMBDA b : b.gz \in {"member", "raw"})
         IN IF \E i \in DOMAIN body : body[i].gz = "raw"
            THEN Ok(body[1].text)
            ELSE Ok(ObjText([i \in 1..Len(body) |-> body[i].m]))

\* GzDecoder + read_to_string: fails on bytes that do not start with a gzip
\* header and on a stream that ends before its trailer
GzDecode(bytes) ==
    IF Len(bytes) = 0 \/ bytes[1] # GzHeader THEN Err("Failed to decompress .mcc file")
    ELSE IF Len(bytes) < 2 \/ bytes[Len(bytes)] # GzTrailer
         THEN Err("Failed to decompress .mcc file")
    ELSE LET body == SubSeq(bytes, 2, Len(bytes) - 1)
         IN IF \E i \in DOMAIN body : body[i].gz \notin {"member", "raw"}
            THEN Err("Failed to decompress .mcc file")
            ELSE IF \E i \in DOMAIN body : body[i].gz = "raw"
            THEN Ok(body[1].text)
            ELSE Ok(ObjText([i \in 1..Len(body) |-> body[i].m]))

\* ExportedSession::from_session
from_session(session) ==
    [version |-> FormatVersion,
     exported_at |-> Now,
     exported_by |-> UserAtHost,
     session |-> [id |-> session.id,
                  project_path |-> session.project_path,
                  messages |-> session.messages,
                  summary |-> session.summary,
                  git_branch |-> session.git_branch]]

\* ExportedSession::export_to_file: the bytes written
export_to_file(c) == GzEncode(SerializeContainer(c))

\* lines 12-20 of import_session: open, decompress, parse
ReadContainer(files, path) ==
    IF path \notin DOMAIN files THEN Err("Failed to open .mcc file")
    ELSE LET json == GzDecode(files[path])
         IN IF ~json.ok THEN json ELSE ParseContainer(json.val)

\* preview_session that accepts the containers of this format version only
preview_session_checked(files, path) ==
    LET read == ReadContainer(files, path)
    IN IF read.ok /\ read.val.version # FormatVersion
       THEN Err("Unsupported version") ELSE read

\* preview_session: import.rs lines 92-100
preview_session(files, path) ==
    IF path \notin DOMAIN files THEN Err("Failed to open .mcc file")
    ELSE LET json == GzDecode(files[path])
         IN IF ~json.ok THEN Err(json.err) ELSE ParseContainer(json.val)

(***************************************************************************)
(* The file system: the sessions root and the registry document.           *)
(***************************************************************************)
EmptyMap == [x \in {} |-> x]
Put(f, k, v) == [x \in DOMAIN f \cup {k} |-> IF x = k THEN v ELSE f[x]]

NoDir == [exists |-> FALSE]
DirOf(entries) == [exists |-> TRUE, entries |-> entries]
\* a directory; read_dir fails on one that is not listable
Directory(files) == [kind |-> "dir", listable |-> TRUE, files |-> files]
Unlistable(files) == [kind |-> "dir", listable |-> FALSE, files |-> files]
PlainFile == [kind |-> "file"]

\* a file of a project directory
TextFile(ext, lines, mtime) ==
    [ext |-> ext, readable |-> TRUE, lines |-> lines, mtime |-> mtime]
Jsonl == "jsonl"

\* the time of the file system's clock, in seconds, at the n-th operation;
\* the files there from the start were modified at 1..MaxMtime
ClockAt(n) == MaxMtime + n

\* EncodePath with a substitute character that DecodeName does not undo
EncodePathUnderscore(project_path) == Replace(project_path, "/", "_")

\* directory name of a project path (import.rs) and its inverse (session.rs)
EncodePath(project_path) == Replace(project_path, "/", "-")
DecodeName(name) == Replace(name, "-", "/")

\* fs::create_dir_all(~/.claude/projects/<name>)
create_dir_all(r, name) ==
    IF ~r.exists THEN Ok(DirOf(Put(EmptyMap, name, Directory(EmptyMap))))
    ELSE IF name \notin DOMAIN r.entries
         THEN Ok(DirOf(Put(r.entries, name, Directory(EmptyMap))))
    ELSE IF r.entries[name].kind = "dir" THEN Ok(r)
    ELSE Err("File exists")

\* WriteRecordFile that opens the file for appending
WriteRecordFileAppend(r, name, stem, lines, now) ==
    LET files == r.entries[name].files
        old == IF stem \in DOMAIN files THEN files[stem].lines ELSE <<>>
    IN DirOf(Put(r.entries, name,
                 [r.entries[name] EXCEPT
                     !.files = Put(files, stem, TextFile("jsonl", old \o lines, now))]))

\* fs::write(<name>/<stem>.jsonl, lines) at time now
WriteRecordFile(r, name, stem, lines, now) ==
    DirOf(Put(r.entries, name,
              [r.entries[name] EXCEPT
                  !.files = Put(r.entries[name].files, stem, TextFile(Jsonl, lines, now))]))

NoFile == [exists |-> FALSE]
\* the registry file: text that parses to doc (a map of top-level keys), or not
RegistryText(doc, pretty) == [exists |-> TRUE, parses |-> TRUE, pretty |-> pretty, doc |-> doc]
RegistryGarbage == [exists |-> TRUE, parses |-> FALSE]
\* the value of "projects" when it is an object: project path -> entry
VProjects(p) == [t |-> "projects", p |-> p]

\* SetLastSessionId that indexes the projects map, which inserts a missing key
SetLastSessionIdOrCreate(doc, project_path, session_id) ==
    IF "projects" \notin DOMAIN doc THEN Ok(doc)
    ELSE IF doc["projects"].t # "projects" THEN Ok(doc)
    ELSE LET known == project_path \in DOMAIN doc["projects"].p
             project == IF known THEN doc["projects"].p[project_path] ELSE VNull
             set(entry) == Put(doc, "projects",
                               VProjects(Put(doc["projects"].p, project_path, entry)))
         IN IF project.t = "null"
            THEN Ok(set(VObj(Put(EmptyMap, "lastSessionId", VStr(session_id)))))
            ELSE IF project.t = "obj"
            THEN Ok(set(VObj(Put(project.o, "lastSessionId", VStr(session_id)))))
            ELSE Err("panic")

\* lines 81-85: config["projects"][project_path]["lastSessionId"] = session_id
\* IndexMut on a Value: null becomes an object, an object gets the key, any
\* other value panics
SetLastSessionId(doc, project_path, session_id) ==
    IF "projects" \notin DOMAIN doc THEN Ok(doc)
    ELSE IF doc["projects"].t # "projects" THEN Ok(doc)
    ELSE IF project_path \notin DOMAIN doc["projects"].p THEN Ok(doc)
    ELSE LET project == doc["projects"].p[project_path]
             set(entry) == Put(doc, "projects",
                               VProjects(Put(doc["projects"].p, project_path, entry)))
         IN IF project.t = "null"
            THEN Ok(set(VObj(Put(EmptyMap, "lastSessionId", VStr(session_id)))))
            ELSE IF project.t = "obj"
            THEN Ok(set(VObj(Put(project.o, "lastSessionId", VStr(session_id)))))
            ELSE Err("panic")

\* update_claude_config that writes back the projects and nothing else
update_claude_config_projects_only(reg, project_path, session_id) ==
    IF ~reg.exists THEN [status |-> "err", registry |-> reg]
    ELSE IF ~reg.parses THEN [status |-> "err", registry |-> reg]
    ELSE LET config == SetLastSessionId(reg.doc, project_path, session_id)
         IN IF ~config.ok THEN [status |-> "panic", registry |-> reg]
            ELSE [status |-> "ok",
                  registry |-> RegistryText([k \in DOMAIN config.val \cap {"projects"} |->
                                                config.val[k]], TRUE)]

\* update_claude_config: the outcome and the registry file afterwards
update_claude_config(reg, project_path, session_id) ==
    IF ~reg.exists THEN [status |-> "err", registry |-> reg]
    ELSE IF ~reg.parses THEN [status |-> "err", registry |-> reg]
    ELSE LET config == SetLastSessionId(reg.doc, project_path, session_id)
         IN IF ~config.ok THEN [status |-> "panic", registry |-> reg]
            ELSE [status |-> "ok", registry |-> RegistryText(config.val, TRUE)]

(***************************************************************************)
(* import_session.                                                         *)
(***************************************************************************)
\* RewriteCwd without the comparison with the original path
RewriteCwdAny(message, original_path, project_path) ==
    IF "cwd" \in DOMAIN message.data /\ IsStr(message.data["cwd"])
    THEN [message EXCEPT !.data = Put(message.data, "cwd", VStr(project_path))]
    ELSE message

\* lines 50-58: the message written for one message of the container
RewriteCwd(message, original_path, project_path) ==
    IF /\ "cwd" \in DOMAIN message.data
       /\ IsStr(message.data["cwd"])
       /\ message.data["cwd"].s = original_path
    THEN [message EXCEPT !.data = Put(message.data, "cwd", VStr(project_path))]
    ELSE message

\* RecordLines that also relocates the cwd of the objects inside a message
RecordLinesDeep(session, project_path) ==
    LET deep(v) == IF /\ IsObj(v)
                      /\ "cwd" \in DOMAIN v.o
                      /\ v.o["cwd"] = VStr(session.project_path)
                   THEN VObj(Put(v.o, "cwd", VStr(project_path))) ELSE v
        rewrite(m) == LET w == RewriteCwd(m, session.project_path, project_path)
                      IN [w EXCEPT !.data = [k \in DOMAIN w.data |-> deep(w.data[k])]]
    IN [i \in 1..Len(session.messages) |-> SerializeMessage(rewrite(session.messages[i]))]

\* lines 47-62: the lines of the record file
RecordLines(session, project_path) ==
    [i \in 1..Len(session.messages) |->
        SerializeMessage(RewriteCwd(session.messages[i], session.project_path, project_path))]

\* the file name of the record file, lines 35-43
SessionFile(project_path, id) == [dir |-> EncodePath(project_path), stem |-> id]

\* import_session(mcc_file, Some(project_path)) at time now: the file system
\* afterwards and what is returned
import_session(files, r, reg, mcc_file, project_path, now) ==
    LET exported == ReadContainer(files, mcc_file)
        unchanged(err) == [root |-> r, registry |-> reg, status |-> "err",
                           written |-> FALSE, err |-> err]
    IN IF ~exported.ok THEN unchanged(exported.err)
       ELSE LET session == exported.val.session
                at == SessionFile(project_path, session.id)
                made == create_dir_all(r, at.dir)
            IN IF ~made.ok THEN unchanged(made.err)
               ELSE LET written == WriteRecordFile(made.val, at.dir, at.stem,
                                                   RecordLines(session, project_path), now)
                        config == update_claude_config(reg, project_path, session.id)
                    IN [root |-> written, registry |-> config.registry,
                        status |-> config.status, written |-> TRUE, at |-> at,
                        id |-> session.id]

(***************************************************************************)
(* Session::load.                                                          *)
(***************************************************************************)
NoMessages == <<"N", "o", " ", "m", "e", "s", "s", "a", "g", "e", "s">>
Ellipsis == <<".", ".", ".">>
SummaryChars == 60
SummaryBytes == 60

\* the characters of the model that take two bytes in UTF-8
Wide == {"W"}
\* str::len: the length in bytes
ByteLen(s) == Len(s) + Cardinality({i \in DOMAIN s : s[i] \in Wide})
\* chars().take(n)
Take(s, n) == SubSeq(s, 1, IF Len(s) < n THEN Len(s) ELSE n)

\* lines 65-68: the summary of a content string
Summarize(content) ==
    Take(content, SummaryChars)
    \o (IF ByteLen(content) > SummaryBytes THEN Ellipsis ELSE <<>>)

\* DecodeLines that stops at the first line that does not decode
RECURSIVE DecodeLinesUntilBad(_)
DecodeLinesUntilBad(lines) ==
    IF lines = <<>> \/ ~ParseMessage(Head(lines)).ok THEN <<>>
    ELSE <<ParseMessage(Head(lines)).val>> \o DecodeLinesUntilBad(Tail(lines))

\* lines 32-35: the lines that decode, in order
DecodeLines(lines) ==
    LET good == SelectSeq(lines, LAMBDA l : ParseMessage(l).ok)
    IN [i \in 1..Len(good) |-> ParseMessage(good[i]).val]

\* msg.data.get(key).and_then(as_str) is Some
HasStr(map, key) == key \in DOMAIN map /\ IsStr(map[key])

\* lines 62-63: the message carries message.content as a string
HasContent(msg) ==
    /\ "message" \in DOMAIN msg.data
    /\ IsObj(msg.data["message"])
    /\ HasStr(msg.data["message"].o, "content")

\* lines 55-71: the loop over the messages from index i on, with the branch
\* seen so far; it breaks at the first user message with a content string
RECURSIVE Extract(_, _, _)
Extract(messages, i, git_branch) ==
    IF i > Len(messages) THEN [git_branch |-> git_branch, summary |-> NoMessages]
    ELSE LET msg == messages[i]
             branch == IF HasStr(msg.data, "gitBranch")
                       THEN Some(msg.data["gitBranch"].s) ELSE git_branch
         IN IF msg.msg_type = User /\ HasContent(msg)
            THEN [git_branch |-> branch,
                  summary |-> Summarize(msg.data["message"].o["content"].s)]
            ELSE Extract(messages, i + 1, branch)

\* Session::load(<dir>/<stem>.<ext>, project_path)
load(file, dir, stem, project_path) ==
    IF ~file.readable THEN Err("Failed to read session file")
    ELSE LET messages == DecodeLines(file.lines)
             meta == Extract(messages, 1, None)
         IN Ok([id |-> stem,
                project_path |-> project_path,
                file_path |-> [dir |-> dir, stem |-> stem],
                messages |-> messages,
                last_modified |-> file.mtime,
                summary |-> meta.summary,
                git_branch |-> meta.git_branch])

(***************************************************************************)
(* find_all_sessions.                                                      *)
(***************************************************************************)
Perms(S) == {p \in [1..Cardinality(S) -> S] : Range(p) = S}

\* the orders in which read_dir can list the root and its project
\* directories: the entries of the root in some order, the files of each
\* directory in some order
RECURSIVE Concat(_)
Concat(ss) == IF ss = <<>> THEN <<>> ELSE Head(ss) \o Concat(Tail(ss))

FilesOf(r, name) ==
    IF r.entries[name].kind = "dir" THEN DOMAIN r.entries[name].files ELSE {}

Listings(r) ==
    IF ~r.exists THEN {<<>>}
    ELSE LET names == DOMAIN r.entries
             inner == {f \in [names -> UNION {Perms(FilesOf(r, n)) : n \in names}] :
                          \A n \in names : f[n] \in Perms(FilesOf(r, n))}
         IN {Concat([i \in 1..Len(outer) |->
                        [j \in 1..Len(f[outer[i]]) |->
                            [dir |-> outer[i], stem |-> f[outer[i]][j]]]]) :
                outer \in Perms(names), f \in inner}

\* InsertDesc that compares nothing: the sessions stay in listing order
InsertAtEnd(sorted, x) == Append(sorted, x)

\* sort_by(|a, b| b.last_modified.cmp(&a.last_modified)): a stable sort
InsertDesc(sorted, x) ==
    LET k == Cardinality({i \in DOMAIN sorted : sorted[i].last_modified >= x.last_modified})
    IN SubSeq(sorted, 1, k) \o <<x>> \o SubSeq(sorted, k + 1, Len(sorted))

RECURSIVE SortDesc(_)
SortDesc(s) ==
    IF s = <<>> THEN <<>>
    ELSE InsertDesc(SortDesc(SubSeq(s, 1, Len(s) - 1)), s[Len(s)])

\* Loaded that stops at the first transcript it cannot load
LoadedUntilFailure(r, listing) ==
    LET try(e) == load(r.entries[e.dir].files[e.stem], e.dir, e.stem, DecodeName(e.dir))
        jsonl == SelectSeq(listing, LAMBDA e : r.entries[e.dir].files[e.stem].ext = Jsonl)
        bad == {i \in DOMAIN jsonl : ~try(jsonl[i]).ok}
        n == IF bad = {} THEN Len(jsonl) ELSE (CHOOSE i \in bad : \A j \in bad : i <= j) - 1
    IN [i \in 1..n |-> try(jsonl[i]).val]

\* lines 139-148: the sessions pushed, in listing order
Loaded(r, listing) ==
    LET try(e) == load(r.entries[e.dir].files[e.stem], e.dir, e.stem, DecodeName(e.dir))
        good == SelectSeq(listing,
                    LAMBDA e : r.entries[e.dir].files[e.stem].ext = Jsonl /\ try(e).ok)
    IN [i \in 1..Len(good) |-> try(good[i]).val]

\* find_all_sessions without the test that the root exists: read_dir fails
find_all_sessions_unchecked(r, listing) ==
    IF ~r.exists THEN Err("read_dir")
    ELSE IF \E n \in DOMAIN r.entries :
               r.entries[n].kind = "dir" /\ ~r.entries[n].listable
         THEN Err("read_dir")
    ELSE Ok(SortDesc(Loaded(r, listing)))

\* find_all_sessions, read_dir listing the files in the order of listing;
\* read_dir(&project_path)? returns the error of a directory it cannot list
find_all_sessions(r, listing) ==
    IF ~r.exists THEN Ok(<<>>)
    ELSE IF \E n \in DOMAIN r.entries :
               r.entries[n].kind = "dir" /\ ~r.entries[n].listable
         THEN Err("read_dir")
    ELSE Ok(SortDesc(Loaded(r, listing)))

(***************************************************************************)
(* `mcc export [name]`: the session of the current directory.              *)
(***************************************************************************)
\* max_by_key: the last of the elements with the greatest key
MaxByKey(sessions, idx) ==
    CHOOSE i \in idx : \A j \in idx :
        \/ sessions[j].last_modified < sessions[i].last_modified
        \/ sessions[j].last_modified = sessions[i].last_modified /\ j <= i

\* the last path component
Basename(path) ==
    LET slashes == {i \in DOMAIN path : path[i] = "/"}
        last == IF slashes = {} THEN 0 ELSE CHOOSE i \in slashes : \A j \in slashes : j <= i
    IN SubSeq(path, last + 1, Len(path))

\* current_session comparing the last path components only
current_session_by_name(sessions, current_path) ==
    LET idx == {i \in DOMAIN sessions :
                   Basename(sessions[i].project_path) = Basename(current_path)}
    IN IF idx = {} THEN None ELSE Some(sessions[MaxByKey(sessions, idx)])

\* main.rs lines 92-94
current_session(sessions, current_path) ==
    LET idx == {i \in DOMAIN sessions : sessions[i].project_path = current_path}
    IN IF idx = {} THEN None ELSE Some(sessions[MaxByKey(sessions, idx)])

\* the file name of the container: main.rs lines 103-117
SlugChars == 30
NotAlphanumeric == {"/", "-", " ", ".", "@", "!", "_"}
Keep(c) == c \notin NotAlphanumeric \/ c = " " \/ c = "-"
ToLower(c) ==
    IF c = "A" THEN "a" ELSE IF c = "N" THEN "n" ELSE IF c = "T" THEN "t"
    ELSE IF c = "W" THEN "w" ELSE c

\* safe_name that takes the 30 characters before it filters them
TruncateThenSanitize(name) ==
    LET kept == SelectSeq(Take(name, SlugChars), Keep)
    IN [i \in 1..Len(kept) |-> ToLower(IF kept[i] = " " THEN "-" ELSE kept[i])]

\* filter, take(30), replace(' ', "-"), to_lowercase
safe_name(name) ==
    LET kept == Take(SelectSeq(name, Keep), SlugChars)
    IN [i \in 1..Len(kept) |-> ToLower(IF kept[i] = " " THEN "-" ELSE kept[i])]

Digits == <<"0", "1", "2", "3", "4", "5", "6", "7", "8", "9">>
\* chrono's %Y%m%d-%H%M%S of the time now
Timestamp(now) == <<"t", Digits[(now % 10) + 1]>>
Suffix == <<".json.gz">>

ExportFileName(custom_name, summary, now) ==
    IF custom_name.some THEN safe_name(custom_name.v) \o Suffix
    ELSE Timestamp(now) \o <<"-">> \o safe_name(summary) \o Suffix

(***************************************************************************)
(* The operations.                                                         *)
(***************************************************************************)
\* `mcc export [name]` run in current_path, read_dir listing in the order of
\* listing: main.rs lines 83-146
ExportCli(current_path, custom_name, listing) ==
    /\ ops < MaxOps
    /\ ops' = ops + 1
    /\ prev' = ret
    /\ \E scanned \in {find_all_sessions(root, listing)} :
       \E sessions \in {IF scanned.ok THEN scanned.val ELSE <<>>} :
       \E found \in {current_session(sessions, current_path)} :
          IF ~scanned.ok
          THEN /\ exports' = exports
               /\ ret' = [op |-> "export", current_path |-> current_path,
                          sessions |-> sessions, found |-> found, failed |-> TRUE]
          ELSE IF found.some
          THEN \E file \in {ExportFileName(custom_name, found.v.summary, ClockAt(ops))} :
                  /\ exports' = Put(exports, file, export_to_file(from_session(found.v)))
                  /\ ret' = [op |-> "export", current_path |-> current_path,
                             sessions |-> sessions, found |-> found, file |-> file,
                             custom_name |-> custom_name]
          ELSE /\ exports' = exports
               /\ ret' = [op |-> "export", current_path |-> current_path,
                          sessions |-> sessions, found |-> found]
    /\ UNCHANGED <<root, registry, catalog, selected, app_message>>

\* `mcc import <file> <target>`: import_session(mcc_file, Some(target))
Import(mcc_file, target) ==
    /\ ops < MaxOps
    /\ ops' = ops + 1
    /\ prev' = ret
    /\ \E done \in {import_session(exports, root, registry, mcc_file, target, ClockAt(ops))} :
          /\ root' = done.root
          /\ registry' = done.registry
          /\ ret' = [op |-> "import", file |-> mcc_file, target |-> target,
                     status |-> done.status, written |-> done.written,
                     at |-> SessionFile(target, IF done.written THEN done.id ELSE <<>>)]
    /\ UNCHANGED <<exports, catalog, selected, app_message>>

\* `mcc preview <file>`: preview_session(mcc_file)
Preview(mcc_file) ==
    /\ ops < MaxOps
    /\ ops' = ops + 1
    /\ prev' = ret
    /\ ret' = [op |-> "preview", file |-> mcc_file,
               result |-> preview_session(exports, mcc_file)]
    /\ UNCHANGED <<root, registry, exports, catalog, selected, app_message>>

\* the terminal UI started: App::new, find_all_sessions into the
\* application's list, the cursor on the first session
Scan(listing) ==
    /\ ops < MaxOps
    /\ ops' = ops + 1
    /\ prev' = ret
    /\ \E scanned \in {find_all_sessions(root, listing)} :
          /\ catalog' = IF scanned.ok THEN scanned.val ELSE catalog
          /\ selected' = IF scanned.ok THEN 0 ELSE selected
          /\ app_message' = IF scanned.ok THEN None ELSE app_message
          /\ ret' = [op |-> "scan", ok |-> scanned.ok]
    /\ UNCHANGED <<root, registry, exports>>

(***************************************************************************)
(* The terminal UI: the list of sessions and its cursor.                   *)
(***************************************************************************)
\* reload_sessions that leaves the cursor where it was
reload_sessions_unclamped(sessions, cursor) == cursor

\* lines 43-45 of reload_sessions: the cursor after the list became sessions
reload_sessions(sessions, cursor) ==
    IF cursor >= Len(sessions) /\ Len(sessions) > 0 THEN Len(sessions) - 1 ELSE cursor

\* select_next and select_prev: the cursor afterwards
select_next(sessions, cursor) ==
    IF sessions # <<>> THEN (cursor + 1) % Len(sessions) ELSE cursor

select_prev(sessions, cursor) ==
    IF sessions # <<>>
    THEN IF cursor = 0 THEN Len(sessions) - 1 ELSE cursor - 1
    ELSE cursor

\* export_session(session, None) at time now: the file written and its bytes
export_session(session, now) ==
    [path |-> Timestamp(now) \o <<"-">> \o safe_name(session.summary) \o Suffix,
     bytes |-> export_to_file(from_session(session))]

\* the key r
Reload(listing) ==
    /\ ops < MaxKeys
    /\ ops' = ops + 1
    /\ prev' = ret
    /\ \E scanned \in {find_all_sessions(root, listing)} :
          IF scanned.ok
          THEN /\ catalog' = scanned.val
               /\ selected' = reload_sessions(scanned.val, selected)
               /\ app_message' = Some(<<"Sessions reloaded">>)
               /\ ret' = [op |-> "reload", ok |-> TRUE, was |-> selected]
          ELSE /\ UNCHANGED <<catalog, selected>>
               /\ app_message' = Some(<<"Reload failed: ", scanned.err>>)
               /\ ret' = [op |-> "reload", ok |-> FALSE, was |-> selected]
    /\ UNCHANGED <<root, registry, exports>>

\* the keys j and Down
SelectNext ==
    /\ ops < MaxKeys
    /\ ops' = ops + 1
    /\ prev' = ret
    /\ selected' = select_next(catalog, selected)
    /\ ret' = [op |-> "select_next", was |-> selected]
    /\ UNCHANGED <<root, registry, exports, catalog, app_message>>

\* the keys k and Up
SelectPrev ==
    /\ ops < MaxKeys
    /\ ops' = ops + 1
    /\ prev' = ret
    /\ selected' = select_prev(catalog, selected)
    /\ ret' = [op |-> "select_prev", was |-> selected]
    /\ UNCHANGED <<root, registry, exports, catalog, app_message>>

\* the key e: export_selected, sessions.get(selected) being the session
\* under the cursor or nothing
ExportSelected ==
    /\ ops < MaxKeys
    /\ ops' = ops + 1
    /\ prev' = ret
    /\ IF selected < Len(catalog)
       THEN \E out \in {export_session(catalog[selected + 1], ClockAt(ops))} :
               /\ exports' = Put(exports, out.path, out.bytes)
               /\ app_message' = Some(<<"Exported to: ">> \o out.path)
               /\ ret' = [op |-> "export_selected", ok |-> TRUE, exported |-> TRUE,
                          was |-> selected]
       ELSE /\ UNCHANGED <<exports, app_message>>
            /\ ret' = [op |-> "export_selected", ok |-> TRUE, exported |-> FALSE,
                       was |-> selected]
    /\ UNCHANGED <<root, registry, catalog, selected>>

\* the assistant, or the user, adds and removes transcripts while the
\* terminal UI is open: the root becomes r
DiskChanges(r) ==
    /\ r # root
    /\ root' = r
    /\ UNCHANGED <<registry, exports, catalog, selected, app_message, ret, prev, ops>>

(***************************************************************************)
(* The inputs of the model.                                                *)
(***************************************************************************)
Hi == <<"h", "i">>
Main == <<"m", "a", "i", "n">>

M_userHere == [msg_type |-> User,
               data |-> [cwd |-> VStr(P_a), message |-> VObj([content |-> VStr(Hi)])]]
M_elsewhere == [msg_type |-> Assistant,
                data |-> [cwd |-> VStr(P_other), gitBranch |-> VStr(Main)]]
M_numeric == [msg_type |-> Assistant, data |-> [cwd |-> VNum(1)]]
M_nested == [msg_type |-> User, data |-> [nested |-> VObj([cwd |-> VStr(P_a)])]]
M_deep == [msg_type |-> Assistant, data |-> [cwd |-> VStr(P_ab)]]

MessagePool == {M_userHere, M_elsewhere, M_numeric, M_nested}

MsgSeqs(n) == UNION {[1..k -> MessagePool] : k \in 0..n}

Container(version, project_path, messages) ==
    [version |-> version, exported_at |-> Now, exported_by |-> UserAtHost,
     session |-> [id |-> Id1, project_path |-> project_path, messages |-> messages,
                  summary |-> Hi, git_branch |-> None]]

\* containers of this version with any messages, and of another version
Containers ==
    {Container(FormatVersion, p, ms) : p \in {P_a, P_ab}, ms \in MsgSeqs(MaxMsgs)}
    \cup {Container(OtherVersion, P_a, ms) : ms \in MsgSeqs(1)}

\* a sequence without its i-th element
Without(seq, i) == SubSeq(seq, 1, i - 1) \o SubSeq(seq, i + 1, Len(seq))

Reference == Container(FormatVersion, P_a, <<M_userHere, M_elsewhere>>)
ReferenceText == SerializeContainer(Reference)
ReferenceSession == ReferenceText.members[4][2].members
NoType == ObjText(<<<<"cwd", VStr(P_a)>>>>)

\* files that are no container: truncated ones, bytes that are no gzip
\* stream, text that is not the JSON of a container
BrokenFiles ==
    {SubSeq(export_to_file(Reference), 1, n) :
        n \in 0..(Len(export_to_file(Reference)) - 1)}
    \cup {<<[gz |-> "text"]>>, GzEncode(Malformed), GzEncode(ScalarText)}
    \cup {GzEncode(ObjText(Without(ReferenceText.members, i))) : i \in 1..4}
    \cup {GzEncode(ObjText(<<ReferenceText.members[1], ReferenceText.members[2],
                             ReferenceText.members[3],
                             <<"session", VObjText(Without(ReferenceSession, i))>> >>)) :
             i \in 1..4}
    \cup {GzEncode(ObjText(<<ReferenceText.members[1], ReferenceText.members[2],
                             ReferenceText.members[3],
                             <<"session", VObjText(<<ReferenceSession[1],
                                 ReferenceSession[2],
                                 <<"messages", VArr(<<NoType>>)>>,
                                 ReferenceSession[4], ReferenceSession[5]>>)>> >>))}

ContainerFiles == {export_to_file(c) : c \in Containers} \cup BrokenFiles

Received == <<"r", ".json.gz">>
Missing == <<"m", ".json.gz">>

Old == <<"s", "0">>
Entry(id) == VObj([lastSessionId |-> VStr(id), allowedTools |-> VNum(0)])
Blocked == DirOf(Put(EmptyMap, EncodePath(P_b), PlainFile))
Registered == RegistryText([numStartups |-> VNum(1),
                            projects |-> VProjects(Put(Put(EmptyMap, P_a, Entry(Old)),
                                                       P_b, Entry(Old)))], FALSE)

Registries ==
    {NoFile, RegistryGarbage,
     RegistryText([numStartups |-> VNum(1)], FALSE),
     RegistryText([projects |-> VNum(0)], FALSE),
     RegistryText([numStartups |-> VNum(1), projects |-> VProjects(EmptyMap)], TRUE),
     Registered,
     RegistryText([projects |-> VProjects(Put(Put(EmptyMap, P_a, VNull), P_b, VNum(7)))], FALSE),
     RegistryText([projects |-> VProjects(Put(EmptyMap, P_b,
                                              VObj([allowedTools |-> VNum(0)])))], FALSE)}

Targets == {P_a, P_b, P_ab}

(***************************************************************************)
(* Import of a received file: any container file, any registry.            *)
(***************************************************************************)
\* every container file with a registry that knows the project, and every
\* registry with three of the files
InitImport ==
    /\ \/ /\ root = NoDir
          /\ registry = Registered
          /\ exports \in {Put(EmptyMap, Received, bytes) : bytes \in ContainerFiles}
       \/ /\ root \in {NoDir, Blocked}
          /\ registry \in Registries
          /\ exports \in {Put(EmptyMap, Received, bytes) :
                             bytes \in {export_to_file(Reference),
                                        export_to_file(Container(OtherVersion, P_b, <<M_elsewhere>>)),
                                        GzEncode(Malformed)}}
    /\ catalog = <<>>
    /\ selected = 0
    /\ app_message = None
    /\ ret = [op |-> "none"]
    /\ prev = [op |-> "none"]
    /\ ops = 0

NextImport ==
    \/ \E t \in Targets : Import(Received, t)
    \/ Import(Missing, P_a)
    \/ Preview(Received)

SpecImport == InitImport /\ [][NextImport]_vars

(***************************************************************************)
(* The whole tool: transcripts on disk, exported, imported, scanned.       *)
(***************************************************************************)
\* a transcript line whose members are not in key order, type last
LooseLine == ObjText(<<<<"gitBranch", VStr(Main)>>, <<"cwd", VStr(P_ab)>>,
                       <<"type", VStr(Assistant)>>>>)

\* the transcripts the assistant may have left: where, and their lines
Slots ==
    <<[dir |-> EncodePath(P_ab), stem |-> Id1,
       lines |-> <<SerializeMessage(M_deep), Malformed, SerializeMessage(M_userHere)>>],
      [dir |-> EncodePath(P_b), stem |-> Id2,
       lines |-> <<SerializeMessage(M_elsewhere)>>],
      [dir |-> EncodePath(P_ab), stem |-> Id2,
       lines |-> <<LooseLine, NoType>>]>>

\* the root holding slot i iff mtime[i] > 0, modified at mtime[i]
RootOf(mtime) ==
    LET here == {i \in DOMAIN Slots : mtime[i] > 0}
        dirs == {Slots[i].dir : i \in here}
        files(d) == LET of == {i \in here : Slots[i].dir = d}
                    IN [stem \in {Slots[i].stem : i \in of} |->
                           LET i == CHOOSE i \in of : Slots[i].stem = stem
                           IN TextFile(Jsonl, Slots[i].lines, mtime[i])]
    IN DirOf([d \in dirs |-> Directory(files(d))])

Roots == {NoDir} \cup {RootOf(m) : m \in [DOMAIN Slots -> 0..MaxMtime]}

WorkingDirs == {P_ab, P_b, P_a_b}

Init ==
    /\ root \in Roots
    /\ registry = Registered
    /\ exports = EmptyMap
    /\ catalog = <<>>
    /\ selected = 0
    /\ app_message = None
    /\ ret = [op |-> "none"]
    /\ prev = [op |-> "none"]
    /\ ops = 0

Next ==
    \/ \E cwd \in WorkingDirs, listing \in Listings(root) : ExportCli(cwd, None, listing)
    \/ \E f \in DOMAIN exports, t \in WorkingDirs : Import(f, t)
    \/ \E f \in DOMAIN exports : Preview(f)
    \/ \E listing \in Listings(root) : Scan(listing)

Spec == Init /\ [][Next]_vars

(***************************************************************************)
(* The parser: one transcript of any lines, scanned.                       *)
(***************************************************************************)
\* a content string of k two-byte characters and then m one-byte ones
Content(k, m) == [i \in 1..(k + m) |-> IF i <= k THEN "W" ELSE "x"]
Says(content) ==
    SerializeMessage([msg_type |-> User,
                      data |-> [message |-> VObj([content |-> VStr(content)])]])

LinePool == {SerializeMessage(M_userHere), SerializeMessage(M_elsewhere), LooseLine,
             Malformed, NoType}

\* ten lines, the k-th of them bad
TenLines == 10
OneBad(k, bad) ==
    [i \in 1..TenLines |-> IF i = k THEN bad
                           ELSE IF i % 2 = 0 THEN SerializeMessage(M_elsewhere)
                           ELSE SerializeMessage(M_numeric)]

Transcripts ==
    UNION {[1..n -> LinePool] : n \in 0..MaxLines}
    \cup {OneBad(k, bad) : k \in 1..TenLines, bad \in {Malformed, NoType, ScalarText}}
    \cup {<<Says(Content(k, m))>> : k \in 0..MaxWide, m \in 0..MaxNarrow}

InitLoad ==
    /\ root \in {DirOf(Put(EmptyMap, EncodePath(P_a),
                           Directory(Put(EmptyMap, Id1, TextFile(Jsonl, lines, 1))))) :
                    lines \in Transcripts}
    /\ registry = Registered
    /\ exports = EmptyMap
    /\ catalog = <<>>
    /\ selected = 0
    /\ app_message = None
    /\ ret = [op |-> "none"]
    /\ prev = [op |-> "none"]
    /\ ops = 0

NextLoad == \E listing \in Listings(root) : Scan(listing)

SpecLoad == InitLoad /\ [][NextLoad]_vars

(***************************************************************************)
(* The scan: a root of any shape, scanned.                                 *)
(***************************************************************************)
Notes == <<"n", "o", "t", "e", "s">>
Stray == <<"x">>

\* what the root may hold: transcripts in two project directories, a file
\* that is no transcript, and a plain file next to the directories
ScanSlots ==
    <<[dir |-> EncodePath(P_a), stem |-> Id1, ext |-> Jsonl],
      [dir |-> EncodePath(P_a), stem |-> Id2, ext |-> Jsonl],
      [dir |-> EncodePath(P_b), stem |-> Id1, ext |-> Jsonl],
      [dir |-> EncodePath(P_b), stem |-> Notes, ext |-> "txt"]>>

\* the root holding slot i iff mtime[i] > 0, modified at mtime[i]; the files
\* of unreadable cannot be read, the directories of closed cannot be listed
ScanRoot(mtime, unreadable, closed, stray) ==
    LET here == {i \in DOMAIN ScanSlots : mtime[i] > 0}
        dirs == {ScanSlots[i].dir : i \in here}
        files(d) == LET of == {i \in here : ScanSlots[i].dir = d}
                    IN [stem \in {ScanSlots[i].stem : i \in of} |->
                           LET i == CHOOSE i \in of : ScanSlots[i].stem = stem
                           IN [TextFile(ScanSlots[i].ext,
                                        <<SerializeMessage(M_userHere)>>, mtime[i])
                                  EXCEPT !.readable = i \notin unreadable]]
        tree == [d \in dirs |-> IF d \in closed THEN Unlistable(files(d))
                                ELSE Directory(files(d))]
    IN DirOf(IF stray THEN Put(tree, Stray, PlainFile) ELSE tree)

ScanRoots ==
    {NoDir}
    \cup {ScanRoot(m, {}, {}, stray) :
             m \in [DOMAIN ScanSlots -> 0..MaxMtime], stray \in BOOLEAN}
    \cup {ScanRoot(m, {i}, {}, FALSE) :
             m \in [DOMAIN ScanSlots -> 1..MaxMtime], i \in 1..3}
    \cup {ScanRoot([i \in DOMAIN ScanSlots |-> 1], unreadable, {EncodePath(P_b)}, FALSE) :
             unreadable \in {{}, {1}}}

InitScan ==
    /\ root \in ScanRoots
    /\ registry = Registered
    /\ exports = EmptyMap
    /\ catalog = <<>>
    /\ selected = 0
    /\ app_message = None
    /\ ret = [op |-> "none"]
    /\ prev = [op |-> "none"]
    /\ ops = 0

NextScan == \E listing \in Listings(root) : Scan(listing)

SpecScan == InitScan /\ [][NextScan]_vars

(***************************************************************************)
(* The file name of an export: one transcript of any summary, exported.    *)
(***************************************************************************)
MaxMarks == 2
MaxLetters == 32

\* a text of k characters that are dropped and then m that are kept: capital
\* letters, small letters and spaces
Text(k, m) ==
    [i \in 1..(k + m) |->
        IF i <= k THEN "!"
        ELSE IF (i - k) % 3 = 1 THEN "A" ELSE IF (i - k) % 3 = 2 THEN "b" ELSE " "]

Titles == {Text(k, m) : k \in 0..MaxMarks, m \in 0..MaxLetters}

InitSlug ==
    /\ root \in {DirOf(Put(EmptyMap, EncodePath(P_a),
                           Directory(Put(EmptyMap, Id1, TextFile(Jsonl, <<Says(title)>>, 1))))) :
                    title \in Titles}
    /\ registry = Registered
    /\ exports = EmptyMap
    /\ catalog = <<>>
    /\ selected = 0
    /\ app_message = None
    /\ ret = [op |-> "none"]
    /\ prev = [op |-> "none"]
    /\ ops = 0

NextSlug ==
    \/ \E listing \in Listings(root) : ExportCli(P_a, None, listing)
    \/ \E listing \in Listings(root) : ExportCli(P_a, Some(Text(1, SlugChars)), listing)

SpecSlug == InitSlug /\ [][NextSlug]_vars

(***************************************************************************)
(* Relocation: a received container imported, and the root scanned.        *)
(***************************************************************************)
\* no root, or a root where the assistant left a session of /a/b at some time
RelocateRoots ==
    {NoDir}
    \cup {DirOf(Put(EmptyMap, EncodePath(P_ab),
                    Directory(Put(EmptyMap, id,
                                  TextFile(Jsonl, <<SerializeMessage(M_deep)>>, mtime))))) :
             id \in {Id1, Id2}, mtime \in 1..MaxMtime}

InitRelocate ==
    /\ root \in RelocateRoots
    /\ registry = Registered
    /\ exports \in {Put(EmptyMap, Received, export_to_file(c)) :
                       c \in {Reference, Container(FormatVersion, P_ab, <<M_deep>>)}}
    /\ catalog = <<>>
    /\ selected = 0
    /\ app_message = None
    /\ ret = [op |-> "none"]
    /\ prev = [op |-> "none"]
    /\ ops = 0

NextRelocate ==
    \/ \E t \in WorkingDirs : Import(Received, t)
    \/ \E listing \in Listings(root) : Scan(listing)

SpecRelocate == InitRelocate /\ [][NextRelocate]_vars

(***************************************************************************)
(* The terminal UI: started on some root, keys pressed, the root changing. *)
(***************************************************************************)
SessionId(i) == <<"s", Digits[i + 1]>>

\* a root of n transcripts of /a, some modified at the same time
TuiRoot(n) ==
    DirOf(Put(EmptyMap, EncodePath(P_a),
              Directory([stem \in {SessionId(i) : i \in 1..n} |->
                            LET i == CHOOSE i \in 1..n : SessionId(i) = stem
                            IN TextFile(Jsonl, <<SerializeMessage(M_userHere)>>,
                                        1 + (i % MaxMtime))])))

TuiRoots ==
    {NoDir, DirOf(Put(EmptyMap, EncodePath(P_a), Unlistable(EmptyMap)))}
    \cup {TuiRoot(n) : n \in 0..MaxSessions}

\* after App::new
InitTui ==
    /\ root \in TuiRoots
    /\ registry = Registered
    /\ exports = EmptyMap
    /\ \E listing \in Listings(root) :
          /\ find_all_sessions(root, listing).ok
          /\ catalog = find_all_sessions(root, listing).val
    /\ selected = 0
    /\ app_message = None
    /\ ret = [op |-> "scan", ok |-> TRUE]
    /\ prev = [op |-> "none"]
    /\ ops = 0

NextTui ==
    \/ \E listing \in Listings(root) : Reload(listing)
    \/ SelectNext
    \/ SelectPrev
    \/ ExportSelected
    \/ \E r \in TuiRoots : DiskChanges(r)

SpecTui == InitTui /\ [][NextTui]_vars

(***************************************************************************)
(* The claims.                                                             *)
(***************************************************************************)
Lines(r, at) == r.entries[at.dir].files[at.stem].lines
\* the session of the container the last import read
Given == ReadContainer(exports, ret.file).val.session
CwdIs(m, p) == HasStr(m.data, "cwd") /\ m.data["cwd"].s = p
OtherCwd(m, p) == HasStr(m.data, "cwd") /\ m.data["cwd"].s # p

\* C1: after an import that wrote the record file, the i-th message of the
\* file has cwd equal to the target where the i-th message of the container
\* had cwd equal to the container's project_path, and has the container's
\* cwd value where that was any other string.
C1_PathRewrite ==
    (ret.op = "import" /\ ret.written) =>
        /\ Len(Lines(root, ret.at)) = Len(Given.messages)
        /\ \A i \in DOMAIN Given.messages :
              LET m == Given.messages[i]
                  w == ParseMessage(Lines(root, ret.at)[i])
              IN /\ w.ok
                 /\ CwdIs(m, Given.project_path) => CwdIs(w.val, ret.target)
                 /\ OtherCwd(m, Given.project_path) =>
                       /\ "cwd" \in DOMAIN w.val.data
                       /\ w.val.data["cwd"] = m.data["cwd"]

C1_Witness ==
    /\ ret.op = "import"
    /\ ret.written
    /\ ret.target # Given.project_path
    /\ \E i \in DOMAIN Given.messages : CwdIs(Given.messages[i], Given.project_path)
    /\ \E i \in DOMAIN Given.messages : OtherCwd(Given.messages[i], Given.project_path)

\* C2: when `mcc export` has exported session s and the next operation
\* imports the file it wrote with target s.project_path, the record file is
\* written and its lines decode to exactly s.messages.
C2_RoundTrip ==
    [][(/\ ret.op = "export"
        /\ ret.found.some
        /\ ret'.op = "import"
        /\ ret'.file = ret.file
        /\ ret'.target = ret.found.v.project_path)
       => (/\ ret'.written
           /\ \A i \in DOMAIN Lines(root', ret'.at) :
                 ParseMessage(Lines(root', ret'.at)[i]).ok
           /\ DecodeLines(Lines(root', ret'.at)) = ret.found.v.messages)]_vars

C2_Witness ==
    /\ ret.op = "import"
    /\ prev.op = "export"
    /\ prev.found.some
    /\ ret.file = prev.file
    /\ ret.target = prev.found.v.project_path
    /\ \E i \in DOMAIN prev.found.v.messages :
          CwdIs(prev.found.v.messages[i], ret.target)
    /\ Len(prev.found.v.messages) >= 2

\* C3: an import of the same file to the same target as the import before it
\* names the same record file, leaves its lines as they were, and leaves the
\* registry file as it was.
C3_Idempotent ==
    [][(/\ ret.op = "import"
        /\ ret'.op = "import"
        /\ ops' = ops + 1
        /\ ret'.file = ret.file
        /\ ret'.target = ret.target)
       => (/\ ret'.at = ret.at
           /\ ret'.written = ret.written
           /\ ret.written => Lines(root', ret'.at) = Lines(root, ret.at)
           /\ registry' = registry)]_vars

C3_Witness ==
    /\ ret.op = "import"
    /\ prev.op = "import"
    /\ prev.file = ret.file
    /\ prev.target = ret.target
    /\ ret.written
    /\ ret.status = "ok"
    /\ Len(Lines(root, ret.at)) > 0

ExactMatches(sessions, path) ==
    {i \in DOMAIN sessions : sessions[i].project_path = path}
NameMatches(sessions, path) ==
    {i \in DOMAIN sessions : Basename(sessions[i].project_path) = Basename(path)}

\* C4: when some session of the scan has project_path equal to the current
\* directory, `mcc export` selects a session with that project_path whose
\* last_modified is the greatest of those.
C4_ExactFirst ==
    (ret.op = "export" /\ ExactMatches(ret.sessions, ret.current_path) # {}) =>
        /\ ret.found.some
        /\ ret.found.v.project_path = ret.current_path
        /\ \A i \in ExactMatches(ret.sessions, ret.current_path) :
              ret.sessions[i].last_modified <= ret.found.v.last_modified

C4_Witness ==
    /\ ret.op = "export"
    /\ ret.found.some
    /\ \E i \in NameMatches(ret.sessions, ret.current_path) :
          /\ ret.sessions[i].project_path # ret.current_path
          /\ ret.sessions[i].last_modified > ret.found.v.last_modified

\* C5: when no session has project_path equal to the current directory and
\* some have its last path component, `mcc export` selects the one of those
\* with the greatest last_modified.
C5_BasenameFallback ==
    (/\ ret.op = "export"
     /\ ExactMatches(ret.sessions, ret.current_path) = {}
     /\ NameMatches(ret.sessions, ret.current_path) # {}) =>
        /\ ret.found.some
        /\ Basename(ret.found.v.project_path) = Basename(ret.current_path)
        /\ \A i \in NameMatches(ret.sessions, ret.current_path) :
              ret.sessions[i].last_modified <= ret.found.v.last_modified

\* the file is absent or is one of the files that are no container
Unreadable(file) == file \notin DOMAIN exports \/ exports[file] \in BrokenFiles

\* C6: an import of a file that is absent, truncated, not gzip, or not the
\* JSON of a container returns an error and leaves the sessions root and the
\* registry file as they were.
C6_FailedReadWritesNothing ==
    [][(ret'.op = "import" /\ ops' = ops + 1 /\ Unreadable(ret'.file))
       => (ret'.status = "err" /\ ~ret'.written /\ root' = root /\ registry' = registry)]_vars

C6_Witness ==
    /\ ret.op = "import"
    /\ ret.status = "err"
    /\ ret.file \in DOMAIN exports
    /\ \E n \in 2..(Len(export_to_file(Reference)) - 1) :
          exports[ret.file] = SubSeq(export_to_file(Reference), 1, n)

\* C7: an import of a well-formed container whose version is not "1.0.0"
\* returns an error and writes no record file.
C7_VersionRejected ==
    (/\ ret.op = "import"
     /\ ret.file \in DOMAIN exports
     /\ exports[ret.file] \in {export_to_file(c) : c \in Containers}
     /\ ReadContainer(exports, ret.file).val.version # FormatVersion)
    => (ret.status = "err" /\ ~ret.written)

Entries(reg) ==
    IF reg.exists /\ reg.parses /\ "projects" \in DOMAIN reg.doc
       /\ reg.doc["projects"].t = "projects"
    THEN DOMAIN reg.doc["projects"].p ELSE {}
EntryOf(reg, path) == reg.doc["projects"].p[path]

FileOf(s) == root.entries[s.file_path.dir].files[s.file_path.stem]
Decodes(lines) == {i \in DOMAIN lines : ParseMessage(lines[i]).ok}

\* C9: after a scan every readable transcript file has its session, whose
\* messages are the decodable lines of the file in line order: the k-th
\* decodable line is the k-th message.
C9_ParserResilience ==
    (ret.op = "scan") =>
        /\ \A d \in DOMAIN root.entries : \A f \in FilesOf(root, d) :
              (root.entries[d].files[f].ext = Jsonl /\ root.entries[d].files[f].readable)
              => \E i \in DOMAIN catalog : catalog[i].file_path = [dir |-> d, stem |-> f]
        /\ \A i \in DOMAIN catalog :
              LET lines == FileOf(catalog[i]).lines
              IN /\ Len(catalog[i].messages) = Cardinality(Decodes(lines))
                 /\ \A j \in Decodes(lines) :
                       catalog[i].messages[Cardinality({k \in Decodes(lines) : k <= j})]
                          = ParseMessage(lines[j]).val

C9_Witness ==
    /\ ret.op = "scan"
    /\ \E i \in DOMAIN catalog :
          /\ Len(FileOf(catalog[i]).lines) = TenLines
          /\ Len(catalog[i].messages) = TenLines - 1
          /\ ~ParseMessage(FileOf(catalog[i]).lines[2]).ok

\* C10: the summary of a session whose first message is a user message with
\* a content string of n characters is the content when n <= 60, and is 60
\* characters long and ends in "..." when n > 60.
C10_SummaryTruncation ==
    \A i \in DOMAIN catalog :
        LET s == catalog[i]
        IN (Len(s.messages) >= 1 /\ s.messages[1].msg_type = User /\ HasContent(s.messages[1]))
           => LET content == s.messages[1].data["message"].o["content"].s
              IN /\ Len(content) <= SummaryChars => s.summary = content
                 /\ Len(content) > SummaryChars =>
                       /\ Len(s.summary) = SummaryChars
                       /\ SubSeq(s.summary, Len(s.summary) - 2, Len(s.summary)) = Ellipsis

\* the gitBranch values the messages carry, in file order
Branches(messages) ==
    LET with == SelectSeq(messages, LAMBDA m : HasStr(m.data, "gitBranch"))
    IN [i \in 1..Len(with) |-> with[i].data["gitBranch"].s]

\* C11: the git_branch of every session of the catalog is the gitBranch of
\* the last message of its file that carries one, whatever messages precede
\* it, and is absent only when no message carries one.
C11_LastBranch ==
    \A i \in DOMAIN catalog :
        LET branches == Branches(catalog[i].messages)
        IN catalog[i].git_branch =
              IF branches = <<>> THEN None ELSE Some(branches[Len(branches)])

Sorted == \A i \in 1..(Len(catalog) - 1) :
              catalog[i].last_modified >= catalog[i + 1].last_modified

\* C12: after a scan the catalog is in descending order of last_modified,
\* each session at least as recent as the next, in whatever order read_dir
\* listed the directories and their files.
C12_CatalogSorted == (ret.op = "scan" /\ ret.ok) => Sorted

\* a scan of three sessions not all modified at the same time, which some
\* listing enumerates in another order than the catalog's
C12_Witness ==
    /\ ret.op = "scan"
    /\ ret.ok
    /\ Len(catalog) = 3
    /\ catalog[1].last_modified > catalog[3].last_modified
    /\ \E listing \in Listings(root) : Loaded(root, listing) # catalog

\* the transcript files of the project directories of the root
TranscriptFiles ==
    {e \in UNION {{[dir |-> d, stem |-> f] : f \in FilesOf(root, d)} : d \in DOMAIN root.entries} :
        FileOf([file_path |-> e]).ext = Jsonl}
Loadable(e) == FileOf([file_path |-> e]).readable
Listable == \A d \in DOMAIN root.entries :
                root.entries[d].kind = "dir" => root.entries[d].listable

\* C14: a scan of a root whose directories can be listed and one of whose
\* transcript files cannot be loaded returns Ok, and its catalog holds one
\* session for every other transcript file of every project directory and
\* none for the file that failed.
C14_SkipAndContinue ==
    (/\ ret.op = "scan"
     /\ root.exists
     /\ Listable
     /\ \E e \in TranscriptFiles : ~Loadable(e)) =>
        /\ ret.ok
        /\ Len(catalog) = Cardinality({e \in TranscriptFiles : Loadable(e)})
        /\ \A e \in TranscriptFiles :
              Loadable(e) <=> \E i \in DOMAIN catalog : catalog[i].file_path = e

\* a scan that skipped one file and kept another of the same directory and
\* one of the other directory
C14_Witness ==
    /\ ret.op = "scan"
    /\ ret.ok
    /\ root.exists
    /\ \E e \in TranscriptFiles :
          /\ ~Loadable(e)
          /\ \E i, j \in DOMAIN catalog :
                /\ catalog[i].file_path.dir = e.dir
                /\ catalog[j].file_path.dir # e.dir

\* C15: a preview of any file, container or not, leaves the sessions root,
\* the registry and the file itself as they were and returns what the first
\* step of an import of that file reads; for the file of a container that is
\* the container structure the file was written from.
C15_PreviewReadOnly ==
    [][(ret'.op = "preview" /\ ops' = ops + 1) =>
          /\ root' = root
          /\ registry' = registry
          /\ exports' = exports
          /\ ret'.result = ReadContainer(exports, ret'.file)
          /\ \A c \in Containers :
                (ret'.file \in DOMAIN exports /\ exports[ret'.file] = export_to_file(c))
                => ret'.result = Ok(c)]_vars

\* a preview of the file of a container of another version, after an import
\* of that file wrote its record file
C15_Witness ==
    /\ ret.op = "preview"
    /\ ret.result.ok
    /\ ret.result.val.version # FormatVersion
    /\ prev.op = "import"
    /\ prev.written
    /\ prev.file = ret.file
    /\ root.exists

\* C16: after an import that wrote the record file, the file has as many
\* messages as the container, in the container's order, each with the type
\* and the attribute names of its original and with every attribute equal to
\* the original's, nested cwd keys included, except a top-level cwd that was
\* equal to the container's project_path.
C16_OnlyCwdChanges ==
    (ret.op = "import" /\ ret.written) =>
        /\ Len(Lines(root, ret.at)) = Len(Given.messages)
        /\ \A i \in DOMAIN Given.messages :
              LET m == Given.messages[i]
                  w == ParseMessage(Lines(root, ret.at)[i])
              IN /\ w.ok
                 /\ w.val.msg_type = m.msg_type
                 /\ DOMAIN w.val.data = DOMAIN m.data
                 /\ \A k \in DOMAIN m.data :
                       \/ k = "cwd" /\ CwdIs(m, Given.project_path)
                       \/ w.val.data[k] = m.data[k]

\* an import to another path of a message with the original path in a nested
\* cwd, before a message whose top-level cwd is the original path
C16_Witness ==
    /\ ret.op = "import"
    /\ ret.written
    /\ ret.target # Given.project_path
    /\ Given.messages = <<M_nested, M_userHere>>
    /\ ParseMessage(Lines(root, ret.at)[1]).val = M_nested

\* C17: the file name of an export is made from the first 30 characters of
\* the summary, or of the name given, by dropping the characters that are
\* neither alphanumeric nor space nor hyphen, turning spaces into hyphens and
\* lowercasing; no character after the 30th of the text is in it.
C17_TruncateThenSanitize ==
    (ret.op = "export" /\ ret.found.some) =>
        ret.file =
            IF ret.custom_name.some
            THEN TruncateThenSanitize(ret.custom_name.v) \o Suffix
            ELSE Timestamp(ClockAt(ops - 1)) \o <<"-">>
                 \o TruncateThenSanitize(ret.found.v.summary) \o Suffix

\* C17, amended: the file name of an export is made from the summary, or
\* from the name given, by dropping the characters that are neither
\* alphanumeric nor space nor hyphen, then taking the first 30 of those that
\* remain, turning spaces into hyphens and lowercasing; it follows the
\* timestamp and a hyphen when no name was given, and ends in .json.gz.
C17_SanitizeThenTruncate ==
    (ret.op = "export" /\ ret.found.some) =>
        LET name == IF ret.custom_name.some THEN ret.custom_name.v ELSE ret.found.v.summary
            head == IF ret.custom_name.some THEN <<>>
                    ELSE Timestamp(ClockAt(ops - 1)) \o <<"-">>
            kept == SelectSeq(name, Keep)
            n == IF Len(kept) < SlugChars THEN Len(kept) ELSE SlugChars
        IN /\ Len(ret.file) = Len(head) + n + 1
           /\ SubSeq(ret.file, 1, Len(head)) = head
           /\ ret.file[Len(ret.file)] = ".json.gz"
           /\ \A i \in 1..n :
                 ret.file[Len(head) + i] = IF kept[i] = " " THEN "-" ELSE ToLower(kept[i])

\* an export under a name whose first character is dropped and whose 31st
\* character is in the file name
C17_Witness ==
    /\ ret.op = "export"
    /\ ret.found.some
    /\ ret.custom_name.some
    /\ ~Keep(ret.custom_name.v[1])
    /\ Len(ret.custom_name.v) > SlugChars
    /\ Len(ret.file) = SlugChars + 1
    /\ ret.file[SlugChars] = LET c == ret.custom_name.v[SlugChars + 1]
                             IN IF c = " " THEN "-" ELSE ToLower(c)

Imported == {i \in DOMAIN catalog : /\ catalog[i].id = prev.at.stem
                                    /\ catalog[i].project_path = prev.target}

\* C19: a scan after a successful import of a container to any absolute
\* target path has a session with the container's id and with project_path
\* equal to the target, and the exact match for the target selects it.
C19_Relocated ==
    (ret.op = "scan" /\ prev.op = "import" /\ prev.status = "ok") =>
        /\ ret.ok
        /\ \E i \in Imported : current_session(catalog, prev.target) = Some(catalog[i])

\* C19, amended: a scan after a successful import of a container to an
\* absolute target path with no hyphen in it has a session with the
\* container's id and with project_path equal to the target, and the exact
\* match for the target selects a session of the target that is that session
\* or one modified at the same time or later.
C19_RelocatedUnlessHyphen ==
    (/\ ret.op = "scan"
     /\ prev.op = "import"
     /\ prev.status = "ok"
     /\ "-" \notin Range(prev.target)) =>
        /\ ret.ok
        /\ \E i \in Imported :
              LET found == current_session(catalog, prev.target)
              IN /\ found.some
                 /\ found.v.project_path = prev.target
                 /\ \/ found.v = catalog[i]
                    \/ found.v.last_modified >= catalog[i].last_modified

\* a scan after an import to another path than the container's, where the
\* target had a session already and the match selects the imported one
C19_Witness ==
    /\ ret.op = "scan"
    /\ prev.op = "import"
    /\ prev.status = "ok"
    /\ ReadContainer(exports, prev.file).val.session.project_path # prev.target
    /\ Len(catalog) = 2
    /\ \A i \in DOMAIN catalog : catalog[i].project_path = prev.target
    /\ current_session(catalog, prev.target).v.id = prev.at.stem

\* C20: an import that returns an error, at whatever step, leaves the
\* sessions root without a new or rewritten record file and the registry
\* file as it was.
C20_AllOrNothing ==
    [][(ret'.op = "import" /\ ops' = ops + 1 /\ ret'.status = "err")
       => (root' = root /\ registry' = registry)]_vars

\* the fields of a registry entry that is an object
FieldsOf(entry) == IF entry.t = "obj" THEN entry.o ELSE EmptyMap

\* C21: an import to a target leaves a registry that was no readable document
\* as it was, and leaves a readable one a document with the same top-level
\* keys, each but projects with its value, with the same entries, each but
\* the target's with its value, and with the fields of the target's entry,
\* each but lastSessionId with its value.
C21_RegistryFrame ==
    [][(ret'.op = "import" /\ ops' = ops + 1) =>
          IF ~(registry.exists /\ registry.parses) THEN registry' = registry
          ELSE /\ registry'.exists
               /\ registry'.parses
               /\ DOMAIN registry'.doc = DOMAIN registry.doc
               /\ \A k \in DOMAIN registry.doc \ {"projects"} :
                     registry'.doc[k] = registry.doc[k]
               /\ Entries(registry) = {} => registry'.doc = registry.doc
               /\ Entries(registry') = Entries(registry)
               /\ \A path \in Entries(registry) :
                     LET old == EntryOf(registry, path)
                         new == EntryOf(registry', path)
                     IN IF path # ret'.target THEN new = old
                        ELSE /\ DOMAIN FieldsOf(new) \ {"lastSessionId"}
                                   = DOMAIN FieldsOf(old) \ {"lastSessionId"}
                             /\ \A f \in DOMAIN FieldsOf(old) \ {"lastSessionId"} :
                                   FieldsOf(new)[f] = FieldsOf(old)[f]
                             /\ new.t # "obj" => new = old]_vars

\* an import that set lastSessionId in the target's entry, which has another
\* field, in a registry with another entry and another top-level key
C21_Witness ==
    /\ ret.op = "import"
    /\ ret.status = "ok"
    /\ ret.target \in Entries(registry)
    /\ EntryOf(registry, ret.target) = Entry(ReadContainer(exports, ret.file).val.session.id)
    /\ \E path \in Entries(registry) \ {ret.target} : EntryOf(registry, path) = Entry(Old)
    /\ "numStartups" \in DOMAIN registry.doc

\* the cursor is on a session of the list
InRange(sessions, cursor) == sessions # <<>> => cursor < Len(sessions)

\* C22: whenever the list of the terminal UI is not empty the cursor is on
\* one of its sessions, before and after every key and reload; select_next
\* on the last session moves the cursor to the first, select_prev on the
\* first moves it to the last; export_selected with an empty list returns Ok
\* and writes no file.
C22_CursorInRange ==
    [][/\ InRange(catalog, selected)
       /\ InRange(catalog', selected')
       /\ (ret'.op = "select_next" /\ ops' = ops + 1 /\ catalog # <<>>
           /\ selected = Len(catalog) - 1) => selected' = 0
       /\ (ret'.op = "select_prev" /\ ops' = ops + 1 /\ catalog # <<>>
           /\ selected = 0) => selected' = Len(catalog) - 1
       /\ (ret'.op = "export_selected" /\ ops' = ops + 1 /\ catalog = <<>>) =>
             /\ ret'.ok
             /\ ~ret'.exported
             /\ exports' = exports]_vars

\* a reload that found a shorter list than the one whose last session the
\* cursor was on, select_prev having wrapped to it
C22_Witness ==
    /\ ret.op = "reload"
    /\ ret.ok
    /\ prev.op = "select_prev"
    /\ prev.was = 0
    /\ catalog # <<>>
    /\ ret.was > Len(catalog) - 1
    /\ selected = Len(catalog) - 1

====
